---- MODULE Spec2Model ----
(***************************************************************************)
(* A model of github.com/andrewhowdencom/stdlib/http:                      *)
(*   - the client and server factories (functional options over defaults), *)
(*   - the transport and handler decorators (InstrumentedTransport,        *)
(*     instrumentedHandler, responseRecorder),                             *)
(*   - the shutdown coordinator (Server.Run),                              *)
(*   - the connection-state hook of the Server (open connections),         *)
(*   - the responseRecorder around the ResponseWriter of one request.      *)
(* Durations are in milliseconds.  Pointers are indices into a heap, 0 is  *)
(* the nil pointer.                                                        *)
(***************************************************************************)
EXTENDS Integers, Sequences, FiniteSets, TLC

VARIABLES
    \* ---- factories (NewClient / NewServer) ----
    fkind,      \* which factory is running: "NewClient" or "NewServer"
    opts,       \* the caller's option list (opts ...ClientOption / ...ServerOption)
    handlerArg, \* the handler argument of NewServer: "nil" or "user"
    fpc,        \* position in the factory: "options", "finalize", "done", "idle"
    idx,        \* index of the next option of the combined list
    client,     \* the *http.Client under construction
    heap,       \* the RoundTripper objects allocated so far
    server,     \* the *Server under construction
    ret,        \* the factory's return values (object, error)
    trail,      \* history: every option invoked so far, with the error it returned
    sent,       \* history: the requests sent with client.Do after construction
    \* ---- decorators (RoundTrip / ServeHTTP) ----
    side,       \* the decorator the requests go through: "client" or "server"
    counterSet, \* whether the decorator's activeRequests counter is non-nil
    reqs,       \* the calls of RoundTrip / ServeHTTP, one per request
    active,     \* the active-requests up/down counter, per attribute set
    \* ---- shutdown coordinator (Server.Run) ----
    inShutdown, \* http.Server: Shutdown has been called on the server
    listening,  \* the accept goroutine whose listener is open, 0 when none is
    listens,    \* history: how many times a listener started accepting
    inflight,   \* connections with a request in flight
    runs,       \* the number of calls of Run so far; the last one is the current
    rpc,        \* position of the current Run: "idle", "select", "draining", "returned"
    lpc,        \* position of each call's accept goroutine
    lerr,       \* what ListenAndServe returned in each accept goroutine
    serverErrors, \* each call's serverErrors channel (capacity 1)
    shutdown,   \* the current call's shutdown channel (capacity 1)
    clock,      \* seconds since Shutdown was called by the current Run
    closeErr,   \* the error of closing the listener in Shutdown
    shutdownCalls, \* history: calls of Shutdown by the current Run
    returns,    \* history: how many times each call of Run has returned
    result,     \* the error the current Run returned
    last,       \* history: what the current Run saw when it left its select
    \* ---- connection-state hook (Server.ConnState) ----
    conns,      \* the last state the hook was called with, per connection
    openConns,  \* the http.server.open_connections up/down counter
    \* ---- responseRecorder around a ResponseWriter ----
    wpc,        \* the wrapped handler of the request: "none", "serving", "done"
    recorder,   \* the responseRecorder ServeHTTP made for the request
    under,      \* the ResponseWriter the recorder embeds
    direct,     \* history: the same ResponseWriter had the handler been given it
    hlog        \* history: the calls the handler made on the writer it was given

factoryVars == <<fkind, opts, handlerArg, fpc, idx, client, heap, server, ret, trail, sent>>

trafficVars == <<side, counterSet, reqs, active>>

runVars ==
    <<inShutdown, listening, listens, inflight, runs, rpc, lpc, lerr, serverErrors,
      shutdown, clock, closeErr, shutdownCalls, returns, result, last>>

connVars == <<conns, openConns>>

writerVars == <<wpc, recorder, under, direct, hlog>>

vars == <<factoryVars, trafficVars, runVars, connVars, writerVars>>

Nil == 0
ErrNil == "nil"

\* ------------------------------------------------------------------ bounds
MaxOpts == 2
MaxSent == 1
MaxRequests == 2
MaxWrites == 2
MaxRuns == 2
MaxInflight == 1
MaxConns == 3
MaxCalls == 3

\* the values a caller passes to an option (ms, or a connection count)
ArgValues == {50, 3000}

\* ---------------------------------------------------------------- options
Opt(op, arg) == [op |-> op, arg |-> arg]

TransportFieldOps ==
    { "WithConnectTimeout", "WithTLSHandshakeTimeout", "WithResponseHeaderTimeout",
      "WithMaxIdleConns", "WithIdleConnTimeout", "WithExpectContinueTimeout" }

\* A meter provider whose instruments can be created (1), and one whose
\* instrument creation returns an error (2).
GoodMeter == 1
BadMeter == 2

ClientOptions ==
    { Opt(op, a) : op \in TransportFieldOps \cup {"WithTimeout"}, a \in ArgValues }
    \cup { Opt("WithClientTracerProvider", 1) }
    \cup { Opt("WithClientMeterProvider", m) : m \in {GoodMeter, BadMeter} }
    \* caller-written options: the one of TestClientInstrumentation, which
    \* installs an InstrumentedTransport over a mock, and one that fails
    \cup { Opt("InstallInstrumentedMock", 0), Opt("FailingOption", 0) }

ServerOptions ==
    { Opt(op, a) : op \in {"WithReadTimeout", "WithWriteTimeout", "WithIdleTimeout"},
                   a \in ArgValues }
    \cup { Opt("WithServerTracerProvider", 1) }
    \cup { Opt("WithServerMeterProvider", m) : m \in {GoodMeter, BadMeter} }
    \cup { Opt("FailingOption", 0) }

DefaultClientOptionsZeroed ==
    << Opt("WithTimeout", 2000),
       Opt("WithConnectTimeout", 500),
       Opt("WithTLSHandshakeTimeout", 500),
       Opt("WithResponseHeaderTimeout", 1500),
       Opt("WithMaxIdleConns", 100),
       Opt("WithExpectContinueTimeout", 1000) >>

DefaultClientOptions ==
    << Opt("WithTimeout", 2000),
       Opt("WithConnectTimeout", 500),
       Opt("WithTLSHandshakeTimeout", 500),
       Opt("WithResponseHeaderTimeout", 1500),
       Opt("WithMaxIdleConns", 100),
       Opt("WithIdleConnTimeout", 90000),
       Opt("WithExpectContinueTimeout", 1000) >>

DefaultServerOptions ==
    << Opt("WithReadTimeout", 2000),
       Opt("WithWriteTimeout", 2000),
       Opt("WithIdleTimeout", 2000) >>

\* ------------------------------------------------------------------- heap
\* One record shape for the three RoundTripper types met in the package.
Object(type) ==
    [ type |-> type,
      \* InstrumentedTransport
      Base |-> Nil, Tracer |-> Nil, Meter |-> Nil, duration |-> Nil,
      \* http.Transport
      DialTimeout |-> 0, TLSHandshakeTimeout |-> 0, ResponseHeaderTimeout |-> 0,
      MaxIdleConns |-> 0, IdleConnTimeout |-> 0, ExpectContinueTimeout |-> 0 ]

IsTransport(h, p) == p # Nil /\ h[p].type = "Transport"
IsInstrumented(h, p) == p # Nil /\ h[p].type = "InstrumentedTransport"

\* only a client whose Transport is itself a *http.Transport is accepted
getTransportDirectOnly(c, h) ==
    IF IsTransport(h, c.Transport) THEN c.Transport ELSE Nil

\* getTransport: the *http.Transport behind the client, Nil for the error
getTransport(c, h) ==
    IF IsTransport(h, c.Transport) THEN c.Transport
    ELSE IF IsInstrumented(h, c.Transport) /\ IsTransport(h, h[c.Transport].Base)
         THEN h[c.Transport].Base
         ELSE Nil

\* a second decorator is stacked on the current transport, whatever it is
ensureInstrumentedTransportAlwaysWraps(c, h) ==
    LET it == Len(h) + 1
    IN  [ it |-> it,
          c  |-> [c EXCEPT !.Transport = it],
          h  |-> Append(h, [Object("InstrumentedTransport") EXCEPT !.Base = c.Transport]) ]

ensureInstrumentedTransport(c, h) ==
    IF IsInstrumented(h, c.Transport)
    THEN [it |-> c.Transport, c |-> c, h |-> h]
    ELSE LET it == Len(h) + 1
         IN  [ it |-> it,
               c  |-> [c EXCEPT !.Transport = it],
               h  |-> Append(h, [Object("InstrumentedTransport") EXCEPT !.Base = c.Transport]) ]

SetTransportField(o, t) ==
    CASE o.op = "WithConnectTimeout"        -> [t EXCEPT !.DialTimeout = o.arg]
      [] o.op = "WithTLSHandshakeTimeout"   -> [t EXCEPT !.TLSHandshakeTimeout = o.arg]
      [] o.op = "WithResponseHeaderTimeout" -> [t EXCEPT !.ResponseHeaderTimeout = o.arg]
      [] o.op = "WithMaxIdleConns"          -> [t EXCEPT !.MaxIdleConns = o.arg]
      [] o.op = "WithIdleConnTimeout"       -> [t EXCEPT !.IdleConnTimeout = o.arg]
      [] o.op = "WithExpectContinueTimeout" -> [t EXCEPT !.ExpectContinueTimeout = o.arg]

\* The effect of one ClientOption on the client: the client and heap after
\* it, and the error it returns.
ApplyClientOption(o, c, h) ==
    CASE o.op = "WithTimeout" ->
            [c |-> [c EXCEPT !.Timeout = o.arg], h |-> h, err |-> ErrNil]
      [] o.op \in TransportFieldOps ->
            LET t == getTransport(c, h)
            IN  IF t = Nil
                THEN [c |-> c, h |-> h, err |-> "transport is not *http.Transport"]
                ELSE [c |-> c, h |-> [h EXCEPT ![t] = SetTransportField(o, h[t])],
                      err |-> ErrNil]
      [] o.op = "WithClientTracerProvider" ->
            LET e == ensureInstrumentedTransport(c, h)
            IN  [c |-> e.c, h |-> [e.h EXCEPT ![e.it].Tracer = o.arg], err |-> ErrNil]
      [] o.op = "WithClientMeterProvider" ->
            LET e == ensureInstrumentedTransport(c, h)
            IN  [ c |-> e.c,
                  h |-> [e.h EXCEPT ![e.it].Meter = o.arg,
                                    ![e.it].duration =
                                        IF o.arg = GoodMeter THEN 1 ELSE Nil],
                  err |-> IF o.arg = GoodMeter THEN ErrNil ELSE "instrument" ]
      [] o.op = "InstallInstrumentedMock" ->
            LET mock == Len(h) + 1
                it   == Len(h) + 2
            IN  [ c |-> [c EXCEPT !.Transport = it],
                  h |-> h \o << Object("mockRoundTripper"),
                                [Object("InstrumentedTransport") EXCEPT !.Base = mock] >>,
                  err |-> ErrNil ]
      [] o.op = "FailingOption" ->
            [c |-> c, h |-> h, err |-> "option failed"]

\* The effect of one ServerOption on the server, and the error it returns.
ApplyServerOption(o, s) ==
    CASE o.op = "WithReadTimeout"  -> [s |-> [s EXCEPT !.ReadTimeout = o.arg], err |-> ErrNil]
      [] o.op = "WithWriteTimeout" -> [s |-> [s EXCEPT !.WriteTimeout = o.arg], err |-> ErrNil]
      [] o.op = "WithIdleTimeout"  -> [s |-> [s EXCEPT !.IdleTimeout = o.arg], err |-> ErrNil]
      [] o.op = "WithServerTracerProvider" -> [s |-> [s EXCEPT !.tracer = o.arg], err |-> ErrNil]
      [] o.op = "WithServerMeterProvider"  -> [s |-> [s EXCEPT !.meter = o.arg], err |-> ErrNil]
      [] o.op = "FailingOption" -> [s |-> s, err |-> "option failed"]


\* -------------------------------------------------------------- requests
Requests == 1..MaxRequests

Methods == {"GET", "POST"}

\* the request of call r; its attribute set is its method
Method(r) == IF r % 2 = 1 THEN "GET" ELSE "POST"

\* the status codes a handler writes, and those a base RoundTripper answers
StatusCodes == {201, 404}

StatusOK == 200

NoSpan ==
    [started |-> 0, ended |-> 0, name |-> <<"none">>, kind |-> "none",
     reqAttrs |-> FALSE, status |-> Nil, err |-> ErrNil]

NoPair == [resp |-> Nil, err |-> "none"]

IdleRequest ==
    [ pc |-> "idle", recording |-> FALSE, injected |-> 0, deferAttrs |-> "none",
      span |-> NoSpan,
      rr |-> [statusCode |-> Nil, forwarded |-> << >>],
      calls |-> << >>,
      baseRet |-> NoPair, result |-> NoPair ]

TrafficIdle ==
    /\ side = "none"
    /\ counterSet = FALSE
    /\ reqs = [r \in Requests |-> IdleRequest]
    /\ active = [m \in Methods |-> 0]

\* ------------------------------------------------------------------- run
Runs == 1..MaxRuns

Signals == {"interrupt", "terminated"}

\* context.WithTimeout(context.Background(), 5*time.Second), in seconds
GraceBudget == 5

NoResult == [kind |-> "none", wraps |-> "none", sig |-> "none"]

NothingSeen ==
    [path |-> "none", errPending |-> FALSE, sigPending |-> FALSE, sig |-> "none",
     inflight |-> 0, errFirst |-> FALSE]

\* ------------------------------------------------------- response writer
\* a ResponseWriter of net/http on which nothing has been called
NewResponseWriter ==
    [ wroteHeader |-> FALSE, status |-> Nil, header |-> "none", sent |-> "none",
      body |-> << >> ]

\* no request is being served
WriterIdle ==
    /\ wpc = "none"
    /\ recorder = [statusCode |-> Nil, forwarded |-> << >>]
    /\ under = NewResponseWriter
    /\ direct = NewResponseWriter
    /\ hlog = << >>

\* ----------------------------------------------------------- connections
Conns == 1..MaxConns

\* a Server no connection has reached
ConnIdle ==
    /\ conns = [c \in Conns |-> "none"]
    /\ openConns = 0

\* a Server on which Run has not been called
RunIdle ==
    /\ inShutdown = FALSE
    /\ listening = 0
    /\ listens = 0
    /\ inflight = 0
    /\ runs = 0
    /\ rpc = "idle"
    /\ lpc = [k \in Runs |-> "none"]
    /\ lerr = [k \in Runs |-> "none"]
    /\ serverErrors = [k \in Runs |-> "empty"]
    /\ shutdown = "empty"
    /\ clock = 0
    /\ closeErr = ErrNil
    /\ shutdownCalls = 0
    /\ returns = [k \in Runs |-> 0]
    /\ result = NoResult
    /\ last = NothingSeen

\* ------------------------------------------------------------- factories
\* the order NewClient / NewServer run the options in
CallerOptionsFirst(defaults, callerOpts) == callerOpts \o defaults

OptionOrder(defaults, callerOpts) == defaults \o callerOpts

OptionList ==
    IF fkind = "NewClient" THEN OptionOrder(DefaultClientOptions, opts)
                           ELSE OptionOrder(DefaultServerOptions, opts)

\* the factory ignores the error of an option
OptionErrorIgnored(err) == FALSE

\* `if err := opt(c); err != nil { return nil, err }`
OptionAborts(err) == err # ErrNil

NotReturned == [obj |-> "none", err |-> "none"]

ZeroServer ==
    [ ReadTimeout |-> 0, WriteTimeout |-> 0, IdleTimeout |-> 0,
      Handler |-> [instrumented |-> FALSE, base |-> handlerArg],
      ConnState |-> FALSE,
      tracer |-> Nil, meter |-> Nil,
      openConnections |-> Nil, activeRequests |-> Nil ]

SeqsUpTo(S, n) == UNION { [1..k -> S] : k \in 0..n }

FactoryInit ==
    /\ fkind \in {"NewClient", "NewServer"}
    /\ opts \in SeqsUpTo(IF fkind = "NewClient" THEN ClientOptions ELSE ServerOptions,
                         MaxOpts)
    /\ handlerArg \in (IF fkind = "NewClient" THEN {"nil"} ELSE {"nil", "user"})
    /\ fpc = "options"
    /\ idx = 1
    /\ client = [Timeout |-> 0, Transport |-> 1]
    /\ heap = << Object("Transport") >>
    /\ server = ZeroServer
    /\ ret = NotReturned
    /\ trail = << >>
    /\ sent = << >>
    /\ TrafficIdle
    /\ RunIdle
    /\ ConnIdle
    /\ WriterIdle

\* NewClient, one turn of its two option loops
ClientApplyOption ==
    /\ fkind = "NewClient"
    /\ fpc = "options"
    /\ LET o == OptionList[idx]
           r == ApplyClientOption(o, client, heap)
       IN  /\ client' = r.c
           /\ heap' = r.h
           /\ trail' = Append(trail, [opt |-> o, err |-> r.err])
           /\ IF OptionAborts(r.err)
              THEN /\ ret' = [obj |-> "nil", err |-> r.err]
                   /\ fpc' = "done"
                   /\ idx' = idx
              ELSE /\ ret' = ret
                   /\ idx' = idx + 1
                   /\ fpc' = IF idx = Len(OptionList) THEN "finalize" ELSE "options"
    /\ UNCHANGED trafficVars
    /\ UNCHANGED runVars
    /\ UNCHANGED writerVars
    /\ UNCHANGED connVars
    /\ UNCHANGED <<fkind, opts, handlerArg, server, sent>>

\* NewClient, `return c, nil`
ClientReturn ==
    /\ fkind = "NewClient"
    /\ fpc = "finalize"
    /\ ret' = [obj |-> "client", err |-> ErrNil]
    /\ fpc' = "done"
    /\ UNCHANGED trafficVars
    /\ UNCHANGED runVars
    /\ UNCHANGED writerVars
    /\ UNCHANGED connVars
    /\ UNCHANGED <<fkind, opts, handlerArg, idx, client, heap, server, trail, sent>>

\* NewServer, one turn of its two option loops
ServerApplyOption ==
    /\ fkind = "NewServer"
    /\ fpc = "options"
    /\ LET o == OptionList[idx]
           r == ApplyServerOption(o, server)
       IN  /\ server' = r.s
           /\ trail' = Append(trail, [opt |-> o, err |-> r.err])
           /\ IF OptionAborts(r.err)
              THEN /\ ret' = [obj |-> "nil", err |-> r.err]
                   /\ fpc' = "done"
                   /\ idx' = idx
              ELSE /\ ret' = ret
                   /\ idx' = idx + 1
                   /\ fpc' = IF idx = Len(OptionList) THEN "finalize" ELSE "options"
    /\ UNCHANGED trafficVars
    /\ UNCHANGED runVars
    /\ UNCHANGED writerVars
    /\ UNCHANGED connVars
    /\ UNCHANGED <<fkind, opts, handlerArg, client, heap, sent>>

\* the process-wide providers of otel.GetTracerProvider / otel.GetMeterProvider;
\* their instruments are always created
GlobalProvider == 3

\* meter.Int64UpDownCounter(name): the instrument, Nil with an error
Int64UpDownCounter(meter) == IF meter = BadMeter THEN Nil ELSE meter

\* a nil handler is left as it is, without the decorator
InstrumentHandlerSkipsNil(h) ==
    IF h.base = "nil" THEN h ELSE [instrumented |-> TRUE, base |-> h.base]

\* `if handler == nil { handler = http.DefaultServeMux }`, then
\* `s.server.Handler = &instrumentedHandler{base: handler, ...}`
InstrumentHandler(h) ==
    [ instrumented |-> TRUE,
      base |-> IF h.base = "nil" THEN "DefaultServeMux" ELSE h.base ]

\* NewServer from "Finalize instrumentation" to its return
ServerFinalize ==
    /\ fkind = "NewServer"
    /\ fpc = "finalize"
    /\ LET tracer == IF server.tracer = Nil THEN GlobalProvider ELSE server.tracer
           meter  == IF server.meter = Nil THEN GlobalProvider ELSE server.meter
           s1     == [server EXCEPT !.tracer = tracer, !.meter = meter]
           ctr    == Int64UpDownCounter(meter)
       IN  IF ctr = Nil
           THEN /\ server' = s1
                /\ ret' = [obj |-> "nil", err |-> "instrument"]
           ELSE /\ server' = [s1 EXCEPT !.openConnections = ctr,
                                        !.activeRequests = ctr,
                                        !.ConnState = TRUE,
                                        !.Handler = InstrumentHandler(s1.Handler)]
                /\ ret' = [obj |-> "server", err |-> ErrNil]
    /\ fpc' = "done"
    /\ UNCHANGED trafficVars
    /\ UNCHANGED runVars
    /\ UNCHANGED writerVars
    /\ UNCHANGED connVars
    /\ UNCHANGED <<fkind, opts, handlerArg, idx, client, heap, trail, sent>>

\* The number of times the propagation headers are injected into one request
\* sent through RoundTripper p: once by every InstrumentedTransport it passes.
RECURSIVE Injections(_, _)
Injections(h, p) ==
    IF IsInstrumented(h, p) THEN 1 + Injections(h, h[p].Base) ELSE 0

\* client.Do(req) on the client NewClient returned
ClientDo ==
    /\ fkind = "NewClient"
    /\ fpc = "done"
    /\ ret.obj = "client"
    /\ Len(sent) < MaxSent
    /\ sent' = Append(sent, [injections |-> Injections(heap, client.Transport)])
    /\ UNCHANGED trafficVars
    /\ UNCHANGED runVars
    /\ UNCHANGED writerVars
    /\ UNCHANGED connVars
    /\ UNCHANGED <<fkind, opts, handlerArg, fpc, idx, client, heap, server, ret, trail>>

FactoryNext ==
    \/ ClientApplyOption
    \/ ClientReturn
    \/ ServerApplyOption
    \/ ServerFinalize
    \/ ClientDo

SpecFactory == FactoryInit /\ [][FactoryNext]_vars


\* ------------------------------------------------------ claims, factories
Returned == fpc = "done"
Succeeded == fpc = "done" /\ ret.err = ErrNil

\* C1: a construction with no caller options succeeds and leaves every
\* timeout/limit field at its documented default: client 2s total, 500ms
\* connect, 500ms TLS handshake, 1.5s response header, 100 idle connections,
\* 90s idle-connection timeout, 1s expect-continue; server 2s read, write and
\* idle timeout.
C1_DefaultsExact ==
    (Returned /\ opts = << >>) =>
        /\ ret.err = ErrNil
        /\ fkind = "NewClient" =>
              /\ ret.obj = "client"
              /\ client.Timeout = 2000
              /\ getTransport(client, heap) # Nil
              /\ LET t == heap[getTransport(client, heap)]
                 IN  /\ t.DialTimeout = 500
                     /\ t.TLSHandshakeTimeout = 500
                     /\ t.ResponseHeaderTimeout = 1500
                     /\ t.MaxIdleConns = 100
                     /\ t.IdleConnTimeout = 90000
                     /\ t.ExpectContinueTimeout = 1000
        /\ fkind = "NewServer" =>
              /\ ret.obj = "server"
              /\ server.ReadTimeout = 2000
              /\ server.WriteTimeout = 2000
              /\ server.IdleTimeout = 2000

C1_Witness ==
    /\ Returned /\ opts = << >> /\ fkind = "NewClient" /\ ret.obj = "client"
    /\ heap[client.Transport].IdleConnTimeout = 90000

\* the value of the last caller option named op, the documented default d
\* when the caller passed none
LastWrite(op, d) ==
    LET I == { i \in 1..Len(opts) : opts[i].op = op }
    IN  IF I = {} THEN d ELSE opts[CHOOSE i \in I : \A j \in I : j <= i].arg

\* C2: after a construction in which every option succeeded, the options
\* invoked were the defaults in declared order followed by the caller's in
\* call order, and each field holds the value of the last caller option that
\* set it, and its default when no caller option set it.  (The transport fields are those of the transport
\* NewClient allocated; a caller option that replaces the client's transport
\* by one without such fields leaves nothing to compare.)
C2_OverrideWins ==
    Succeeded =>
        /\ [i \in 1..Len(trail) |-> trail[i].opt] =
              (IF fkind = "NewClient" THEN DefaultClientOptions
                                      ELSE DefaultServerOptions) \o opts
        /\ fkind = "NewClient" =>
              /\ client.Timeout = LastWrite("WithTimeout", 2000)
              /\ (\A i \in 1..Len(opts) : opts[i].op # "InstallInstrumentedMock") =>
                    /\ getTransport(client, heap) # Nil
                    /\ LET t == heap[getTransport(client, heap)]
                       IN  /\ t.DialTimeout = LastWrite("WithConnectTimeout", 500)
                           /\ t.TLSHandshakeTimeout = LastWrite("WithTLSHandshakeTimeout", 500)
                           /\ t.ResponseHeaderTimeout = LastWrite("WithResponseHeaderTimeout", 1500)
                           /\ t.MaxIdleConns = LastWrite("WithMaxIdleConns", 100)
                           /\ t.IdleConnTimeout = LastWrite("WithIdleConnTimeout", 90000)
                           /\ t.ExpectContinueTimeout = LastWrite("WithExpectContinueTimeout", 1000)
        /\ fkind = "NewServer" =>
              /\ server.ReadTimeout = LastWrite("WithReadTimeout", 2000)
              /\ server.WriteTimeout = LastWrite("WithWriteTimeout", 2000)
              /\ server.IdleTimeout = LastWrite("WithIdleTimeout", 2000)

\* the same field overridden twice, with different values
C2_Witness ==
    /\ Succeeded /\ fkind = "NewClient" /\ Len(opts) = 2
    /\ opts[1].op = "WithTLSHandshakeTimeout" /\ opts[2].op = "WithTLSHandshakeTimeout"
    /\ opts[1].arg # opts[2].arg
    /\ heap[client.Transport].TLSHandshakeTimeout = opts[2].arg

\* C3: when an option returns an error, it is the last option invoked (the
\* options are invoked in list order and none after the failing one), the
\* factory has returned, its error is that option's error and its object is nil.
C3_StopsAtFirstError ==
    /\ Len(trail) <= Len(OptionList)
    /\ \A i \in 1..Len(trail) :
          /\ trail[i].opt = OptionList[i]
          /\ trail[i].err # ErrNil =>
                /\ i = Len(trail)
                /\ fpc = "done"
                /\ ret = [obj |-> "nil", err |-> trail[i].err]

\* the first caller option failed and a second one was never invoked
C3_Witness ==
    /\ Returned /\ Len(opts) = 2
    /\ Len(trail) = Len(OptionList) - 1
    /\ trail[Len(trail)].err # ErrNil
    /\ ret.obj = "nil"

ProviderOps == {"WithClientTracerProvider", "WithClientMeterProvider"}

\* a provider option is about to run on a client whose transport is already
\* an InstrumentedTransport
EnsureOnInstrumented ==
    /\ fkind = "NewClient" /\ fpc = "options"
    /\ OptionList[idx].op \in ProviderOps
    /\ IsInstrumented(heap, client.Transport)

ProviderApplied == \E i \in 1..Len(trail) : trail[i].opt.op \in ProviderOps

\* C5: ensureInstrumentedTransport on an already instrumented client allocates
\* nothing and leaves Client.Transport unchanged; no InstrumentedTransport has
\* an InstrumentedTransport as its Base; once a provider option ran, the
\* client's transport is an InstrumentedTransport and every request gets the
\* propagation headers injected exactly once.
C5_SingleLayer ==
    /\ [][EnsureOnInstrumented =>
            (client'.Transport = client.Transport /\ Len(heap') = Len(heap))]_vars
    /\ [](fkind = "NewClient" =>
            /\ \A p \in 1..Len(heap) :
                  IsInstrumented(heap, p) => ~IsInstrumented(heap, heap[p].Base)
            /\ ProviderApplied => IsInstrumented(heap, client.Transport)
            /\ \A k \in 1..Len(sent) :
                  /\ sent[k].injections <= 1
                  /\ ProviderApplied => sent[k].injections = 1)

\* both provider options ran, the second on the decorator of the first, and
\* a request was sent
C5_Witness ==
    /\ fkind = "NewClient" /\ Succeeded
    /\ Len(opts) = 2 /\ opts[1].op \in ProviderOps /\ opts[2].op \in ProviderOps
    /\ Len(sent) = 1 /\ sent[1].injections = 1


\* ------------------------------------------------------------ decorators
FactoryIdle ==
    /\ fkind = "none"
    /\ opts = << >>
    /\ handlerArg = "nil"
    /\ fpc = "idle"
    /\ idx = 1
    /\ client = [Timeout |-> 0, Transport |-> Nil]
    /\ heap = << >>
    /\ server = ZeroServer
    /\ ret = NotReturned
    /\ trail = << >>
    /\ sent = << >>

TrafficInit ==
    /\ side \in {"client", "server"}
    /\ counterSet \in BOOLEAN
    /\ reqs = [r \in Requests |-> IdleRequest]
    /\ active = [m \in Methods |-> 0]
    /\ FactoryIdle
    /\ RunIdle
    /\ ConnIdle
    /\ WriterIdle

\* activeRequests.Add(ctx, 1, attrs) behind `if activeRequests != nil`
AddActive(act, attrs) ==
    IF counterSet THEN [act EXCEPT ![attrs] = @ + 1] ELSE act

\* the attribute set the deferred Add(-1) was registered with
DeferredAttrs(attrs) == IF counterSet THEN attrs ELSE "none"

\* the decrement runs only when the delegate came back without an error
RunDeferredAddOnSuccessOnly(act, rq, exit) ==
    IF rq.deferAttrs = "none" \/ exit # "return"
    THEN act
    ELSE [act EXCEPT ![rq.deferAttrs] = @ - 1]

\* the decrement is made with the attribute set of a GET, whatever the
\* attribute set of the increment was
RunDeferredAddOtherAttrs(act, rq, exit) ==
    IF rq.deferAttrs = "none"
    THEN act
    ELSE [act EXCEPT !["GET"] = @ - 1]

\* `defer activeRequests.Add(ctx, -1, attrs)`: runs however the call is left
\* (exit is "return", "error" or "panic")
RunDeferredAdd(act, rq, exit) ==
    IF rq.deferAttrs = "none"
    THEN act
    ELSE [act EXCEPT ![rq.deferAttrs] = @ - 1]

\* what a base RoundTripper can return
BaseOutcomes ==
    { [resp |-> c, err |-> ErrNil] : c \in StatusCodes }
    \cup { [resp |-> Nil, err |-> "dial error"], [resp |-> 404, err |-> "body error"] }

\* the error of the base comes back wrapped
RoundTripResultWrapped(o) ==
    IF o.err = ErrNil THEN o ELSE [o EXCEPT !.err = "round trip failed"]

\* `resp, err := rt.RoundTrip(req) ... return resp, err`
RoundTripResult(o) == o

\* RoundTrip steps 5 (6 in the comments): the span after the response
EnrichResponse(span, recording, o) ==
    IF recording
    THEN [span EXCEPT !.err = o.err,
                      !.status = IF o.resp # Nil THEN o.resp ELSE @]
    ELSE span

\* RoundTrip up to the call of the base: inject, enrich the span of the
\* context when it is recording, count the request in
RtBegin(r) ==
    /\ side = "client"
    /\ reqs[r].pc = "idle"
    /\ \E rec \in BOOLEAN :
          reqs' = [reqs EXCEPT ![r] =
                      [@ EXCEPT !.pc = "base",
                                !.recording = rec,
                                !.injected = @ + 1,
                                !.span = IF rec THEN [@ EXCEPT !.reqAttrs = TRUE] ELSE @,
                                !.deferAttrs = DeferredAttrs(Method(r))]]
    /\ active' = AddActive(active, Method(r))
    /\ UNCHANGED <<side, counterSet>>
    /\ UNCHANGED factoryVars
    /\ UNCHANGED runVars
    /\ UNCHANGED writerVars
    /\ UNCHANGED connVars

\* the base returns: enrich the span, run the deferred decrement, return
RtReturn(r) ==
    /\ side = "client"
    /\ reqs[r].pc = "base"
    /\ \E o \in BaseOutcomes :
          /\ reqs' = [reqs EXCEPT ![r] =
                        [@ EXCEPT !.pc = "done",
                                  !.baseRet = o,
                                  !.span = EnrichResponse(@, reqs[r].recording, o),
                                  !.result = RoundTripResult(o)]]
          /\ active' = RunDeferredAdd(active, reqs[r],
                                      IF o.err = ErrNil THEN "return" ELSE "error")
    /\ UNCHANGED <<side, counterSet>>
    /\ UNCHANGED factoryVars
    /\ UNCHANGED runVars
    /\ UNCHANGED writerVars
    /\ UNCHANGED connVars

\* the base panics: only the deferred decrement runs
RtPanic(r) ==
    /\ side = "client"
    /\ reqs[r].pc = "base"
    /\ reqs' = [reqs EXCEPT ![r].pc = "panicked"]
    /\ active' = RunDeferredAdd(active, reqs[r], "panic")
    /\ UNCHANGED <<side, counterSet>>
    /\ UNCHANGED factoryVars
    /\ UNCHANGED runVars
    /\ UNCHANGED writerVars
    /\ UNCHANGED connVars

\* the recorder keeps the code of the first call only
WriteHeaderKeepsFirst(rr, statusCode) ==
    [ statusCode |-> IF rr.forwarded = << >> THEN statusCode ELSE rr.statusCode,
      forwarded  |-> Append(rr.forwarded, statusCode) ]

\* responseRecorder.WriteHeader
WriteHeader(rr, statusCode) ==
    [ statusCode |-> statusCode,
      forwarded  |-> Append(rr.forwarded, statusCode) ]

\* ServeHTTP up to the call of the wrapped handler: start the span, defer its
\* End, attach the request attributes, count the request in, wrap the writer
ShBegin(r) ==
    /\ side = "server"
    /\ reqs[r].pc = "idle"
    /\ reqs' = [reqs EXCEPT ![r] =
                  [@ EXCEPT !.pc = "serving",
                            !.recording = TRUE,
                            !.span = [@ EXCEPT !.started = @ + 1,
                                               !.name = <<"HTTP", Method(r)>>,
                                               !.kind = "server",
                                               !.reqAttrs = TRUE],
                            !.deferAttrs = DeferredAttrs(Method(r)),
                            !.rr = [statusCode |-> StatusOK, forwarded |-> << >>]]]
    /\ active' = AddActive(active, Method(r))
    /\ UNCHANGED <<side, counterSet>>
    /\ UNCHANGED factoryVars
    /\ UNCHANGED runVars
    /\ UNCHANGED writerVars
    /\ UNCHANGED connVars

\* the wrapped handler calls WriteHeader(code) on the writer it was given
ShWriteHeader(r) ==
    /\ side = "server"
    /\ reqs[r].pc = "serving"
    /\ Len(reqs[r].calls) < MaxWrites
    /\ \E code \in StatusCodes :
          reqs' = [reqs EXCEPT ![r] =
                      [@ EXCEPT !.calls = Append(@, code),
                                !.rr = WriteHeader(@, code)]]
    /\ UNCHANGED <<side, counterSet, active>>
    /\ UNCHANGED factoryVars
    /\ UNCHANGED runVars
    /\ UNCHANGED writerVars
    /\ UNCHANGED connVars

\* the wrapped handler returns: attach the captured status, then the deferred
\* decrement and span.End()
ShReturn(r) ==
    /\ side = "server"
    /\ reqs[r].pc = "serving"
    /\ reqs' = [reqs EXCEPT ![r] =
                  [@ EXCEPT !.pc = "done",
                            !.span = [@ EXCEPT !.status = reqs[r].rr.statusCode,
                                               !.ended = @ + 1]]]
    /\ active' = RunDeferredAdd(active, reqs[r], "return")
    /\ UNCHANGED <<side, counterSet>>
    /\ UNCHANGED factoryVars
    /\ UNCHANGED runVars
    /\ UNCHANGED writerVars
    /\ UNCHANGED connVars

\* span.End() is not deferred: a panic of the handler leaves the span open
ShPanicSpanLeftOpen(r) ==
    /\ side = "server"
    /\ reqs[r].pc = "serving"
    /\ reqs' = [reqs EXCEPT ![r].pc = "panicked"]
    /\ active' = RunDeferredAdd(active, reqs[r], "panic")
    /\ UNCHANGED <<side, counterSet>>
    /\ UNCHANGED factoryVars
    /\ UNCHANGED runVars
    /\ UNCHANGED writerVars
    /\ UNCHANGED connVars

\* the wrapped handler panics: only the deferred decrement and span.End() run
ShPanic(r) ==
    /\ side = "server"
    /\ reqs[r].pc = "serving"
    /\ reqs' = [reqs EXCEPT ![r] =
                  [@ EXCEPT !.pc = "panicked",
                            !.span = [@ EXCEPT !.ended = @ + 1]]]
    /\ active' = RunDeferredAdd(active, reqs[r], "panic")
    /\ UNCHANGED <<side, counterSet>>
    /\ UNCHANGED factoryVars
    /\ UNCHANGED runVars
    /\ UNCHANGED writerVars
    /\ UNCHANGED connVars

TrafficNext ==
    \/ \E r \in Requests : RtBegin(r)
    \/ \E r \in Requests : RtReturn(r)
    \/ \E r \in Requests : RtPanic(r)
    \/ \E r \in Requests : ShBegin(r)
    \/ \E r \in Requests : ShWriteHeader(r)
    \/ \E r \in Requests : ShReturn(r)
    \/ \E r \in Requests : ShPanic(r)

SpecTraffic == TrafficInit /\ [][TrafficNext]_vars

\* ----------------------------------------------------- claims, decorators
Finished(r) == reqs[r].pc \in {"done", "panicked"}

\* C4: once every one of the concurrent calls has been left (returned, with
\* or without an error, or panicked), the active-request counter is back at
\* the value it had before the first call, for every attribute set.
C4_CounterRestored ==
    (\A r \in Requests : Finished(r)) => \A m \in Methods : active[m] = 0

\* all calls counted in and left, one of them with an error from the base
C4_Witness ==
    /\ side = "client" /\ counterSet
    /\ \A r \in Requests : reqs[r].pc = "done" /\ reqs[r].deferAttrs # "none"
    /\ \E r \in Requests : reqs[r].baseRet.err # ErrNil
    /\ \A m \in Methods : active[m] = 0

\* the code of the handler's last WriteHeader call, 200 when it made none
FinalStatus(r) ==
    IF reqs[r].calls = << >> THEN 200 ELSE reqs[r].calls[Len(reqs[r].calls)]

C10_ErrorsUnchanged ==
    \A r \in Requests :
        (side = "client" /\ reqs[r].pc = "done") =>
            /\ reqs[r].result = reqs[r].baseRet
            /\ reqs[r].baseRet \in BaseOutcomes
            /\ reqs[r].span.err =
                  (IF reqs[r].recording THEN reqs[r].baseRet.err ELSE ErrNil)

\* an error of the base came back while the span was recording
C10_Witness ==
    \E r \in Requests :
        /\ side = "client" /\ reqs[r].pc = "done" /\ reqs[r].recording
        /\ reqs[r].baseRet.err = "dial error"
        /\ reqs[r].result = [resp |-> Nil, err |-> "dial error"]
        /\ reqs[r].span.err = "dial error"


\* ------------------------------------------------- shutdown coordinator
RunInit ==
    /\ RunIdle
    /\ ConnIdle
    /\ WriterIdle
    /\ FactoryIdle
    /\ TrafficIdle

OtherUnchanged ==
    /\ UNCHANGED factoryVars /\ UNCHANGED trafficVars
    /\ UNCHANGED connVars /\ UNCHANGED writerVars

\* Run up to its select: make both channels, start the accept goroutine,
\* register the shutdown channel for SIGINT and SIGTERM.  A further call of
\* Run on the same Server is possible once the previous call has returned.
RunStart ==
    /\ rpc \in {"idle", "returned"}
    /\ runs < MaxRuns
    /\ runs' = runs + 1
    /\ rpc' = "select"
    /\ lpc' = [lpc EXCEPT ![runs + 1] = "start"]
    /\ shutdown' = "empty"
    /\ clock' = 0
    /\ closeErr' = ErrNil
    /\ shutdownCalls' = 0
    /\ result' = NoResult
    /\ last' = NothingSeen
    /\ UNCHANGED <<inShutdown, listening, listens, inflight, lerr, serverErrors, returns>>
    /\ OtherUnchanged

\* the accept goroutine enters ListenAndServe: ErrServerClosed once Shutdown
\* was called, else the address is bound (or not) and accepting starts
LnListen(k) ==
    /\ lpc[k] = "start"
    /\ \/ /\ inShutdown
          /\ lerr' = [lerr EXCEPT ![k] = "ErrServerClosed"]
          /\ lpc' = [lpc EXCEPT ![k] = "exited"]
          /\ UNCHANGED <<listening, listens>>
       \/ /\ ~inShutdown
          /\ lerr' = [lerr EXCEPT ![k] = "listen error"]
          /\ lpc' = [lpc EXCEPT ![k] = "sending"]
          /\ UNCHANGED <<listening, listens>>
       \/ /\ ~inShutdown
          /\ listening = 0
          /\ listening' = k
          /\ listens' = listens + 1
          /\ lpc' = [lpc EXCEPT ![k] = "serving"]
          /\ UNCHANGED lerr
    /\ UNCHANGED <<inShutdown, inflight, runs, rpc, serverErrors, shutdown, clock,
                   closeErr, shutdownCalls, returns, result, last>>
    /\ OtherUnchanged

\* Accept fails for good while the server is not shutting down: Serve closes
\* the listener and returns the error
LnAcceptError(k) ==
    /\ lpc[k] = "serving"
    /\ ~inShutdown
    /\ listening' = 0
    /\ lerr' = [lerr EXCEPT ![k] = "accept error"]
    /\ lpc' = [lpc EXCEPT ![k] = "sending"]
    /\ UNCHANGED <<inShutdown, listens, inflight, runs, rpc, serverErrors, shutdown,
                   clock, closeErr, shutdownCalls, returns, result, last>>
    /\ OtherUnchanged

\* Shutdown closed the listener: Serve returns ErrServerClosed, which the
\* goroutine does not send
LnServerClosed(k) ==
    /\ lpc[k] = "serving"
    /\ inShutdown
    /\ lerr' = [lerr EXCEPT ![k] = "ErrServerClosed"]
    /\ lpc' = [lpc EXCEPT ![k] = "exited"]
    /\ UNCHANGED <<inShutdown, listening, listens, inflight, runs, rpc, serverErrors,
                   shutdown, clock, closeErr, shutdownCalls, returns, result, last>>
    /\ OtherUnchanged

\* the channel has no buffer: the send completes only while the coordinator
\* of the same call waits at its select
LnSendUnbuffered(k) ==
    /\ lpc[k] = "sending"
    /\ serverErrors[k] = "empty"
    /\ rpc = "select" /\ runs = k
    /\ serverErrors' = [serverErrors EXCEPT ![k] = lerr[k]]
    /\ lpc' = [lpc EXCEPT ![k] = "exited"]
    /\ UNCHANGED <<inShutdown, listening, listens, inflight, runs, rpc, lerr, shutdown,
                   clock, closeErr, shutdownCalls, returns, result, last>>
    /\ OtherUnchanged

\* `serverErrors <- err` on the channel of capacity 1
LnSend(k) ==
    /\ lpc[k] = "sending"
    /\ serverErrors[k] = "empty"
    /\ serverErrors' = [serverErrors EXCEPT ![k] = lerr[k]]
    /\ lpc' = [lpc EXCEPT ![k] = "exited"]
    /\ UNCHANGED <<inShutdown, listening, listens, inflight, runs, rpc, lerr, shutdown,
                   clock, closeErr, shutdownCalls, returns, result, last>>
    /\ OtherUnchanged

\* the OS delivers SIGINT or SIGTERM to the registered channel; a signal that
\* finds the channel full is dropped
Signal(sig) ==
    /\ rpc = "select"
    /\ shutdown = "empty"
    /\ shutdown' = sig
    /\ last' = [last EXCEPT !.errFirst = (serverErrors[runs] # "empty")]
    /\ UNCHANGED <<inShutdown, listening, listens, inflight, runs, rpc, lpc, lerr,
                   serverErrors, clock, closeErr, shutdownCalls, returns, result>>
    /\ OtherUnchanged

\* a connection is accepted and its request starts
RequestStart ==
    /\ listening # 0
    /\ inflight < MaxInflight
    /\ inflight' = inflight + 1
    /\ UNCHANGED <<inShutdown, listening, listens, runs, rpc, lpc, lerr, serverErrors,
                   shutdown, clock, closeErr, shutdownCalls, returns, result, last>>
    /\ OtherUnchanged

\* a request in flight completes and its connection goes idle
RequestDone ==
    /\ inflight > 0
    /\ inflight' = inflight - 1
    /\ UNCHANGED <<inShutdown, listening, listens, runs, rpc, lpc, lerr, serverErrors,
                   shutdown, clock, closeErr, shutdownCalls, returns, result, last>>
    /\ OtherUnchanged

Seen(path) ==
    [ path |-> path,
      errPending |-> serverErrors[runs] # "empty",
      sigPending |-> shutdown # "empty",
      sig |-> shutdown,
      inflight |-> inflight,
      errFirst |-> last.errFirst ]

\* the listener error is dropped and Run returns nil
ServerErrorSwallowed(err) == [kind |-> "nil", wraps |-> "none", sig |-> "none"]

\* fmt.Errorf("server error: %w", err)
ServerError(err) == [kind |-> "server error", wraps |-> err, sig |-> "none"]

\* `case err := <-serverErrors: return ...`
SelectServerError ==
    /\ rpc = "select"
    /\ serverErrors[runs] # "empty"
    /\ result' = ServerError(serverErrors[runs])
    /\ serverErrors' = [serverErrors EXCEPT ![runs] = "empty"]
    /\ last' = Seen("listener")
    /\ rpc' = "returned"
    /\ returns' = [returns EXCEPT ![runs] = @ + 1]
    /\ UNCHANGED <<inShutdown, listening, listens, inflight, runs, lpc, lerr, shutdown,
                   clock, closeErr, shutdownCalls>>
    /\ OtherUnchanged

\* `case sig := <-shutdown:` up to the call of s.server.Shutdown(ctx), which
\* marks the server as shutting down and closes its listener
SelectShutdown ==
    /\ rpc = "select"
    /\ shutdown # "empty"
    /\ last' = Seen("signal")
    /\ shutdown' = "empty"
    /\ rpc' = "draining"
    /\ clock' = 0
    /\ shutdownCalls' = shutdownCalls + 1
    /\ inShutdown' = TRUE
    /\ listening' = 0
    /\ closeErr' \in (IF listening # 0 THEN {ErrNil, "close error"} ELSE {ErrNil})
    /\ UNCHANGED <<listens, inflight, runs, lpc, lerr, serverErrors, returns, result>>
    /\ OtherUnchanged

\* a second passes while Shutdown waits for the connections in flight
Tick ==
    /\ rpc = "draining"
    /\ inflight > 0
    /\ clock < GraceBudget
    /\ clock' = clock + 1
    /\ UNCHANGED <<inShutdown, listening, listens, inflight, runs, rpc, lpc, lerr,
                   serverErrors, shutdown, closeErr, shutdownCalls, returns, result, last>>
    /\ OtherUnchanged

\* the error of Shutdown is dropped and Run returns nil
GracefulErrorSwallowed(err, sig) == [kind |-> "nil", wraps |-> "none", sig |-> "none"]

\* fmt.Errorf("could not stop server gracefully: %w (signal: %v)", err, sig)
GracefulError(err, sig) ==
    [kind |-> "could not stop server gracefully", wraps |-> err, sig |-> sig]

\* `if err := s.server.Shutdown(ctx); err != nil { return ... }; return nil`
AfterShutdown(err, sig) ==
    IF err # ErrNil THEN GracefulError(err, sig)
                    ELSE [kind |-> "nil", wraps |-> "none", sig |-> "none"]

\* Shutdown finds no connection in flight and returns the error of closing
\* the listener; Run returns
ShutdownDone ==
    /\ rpc = "draining"
    /\ inflight = 0
    /\ result' = AfterShutdown(closeErr, last.sig)
    /\ last' = [last EXCEPT !.inflight = inflight]
    /\ rpc' = "returned"
    /\ returns' = [returns EXCEPT ![runs] = @ + 1]
    /\ UNCHANGED <<inShutdown, listening, listens, inflight, runs, lpc, lerr,
                   serverErrors, shutdown, clock, closeErr, shutdownCalls>>
    /\ OtherUnchanged

\* after the deadline the coordinator waits at its select again
ShutdownTimeoutWaitsAgain ==
    /\ rpc = "draining"
    /\ clock = GraceBudget
    /\ rpc' = "select"
    /\ UNCHANGED <<inShutdown, listening, listens, inflight, runs, lpc, lerr,
                   serverErrors, shutdown, clock, closeErr, shutdownCalls, returns,
                   result, last>>
    /\ OtherUnchanged

\* the context of Shutdown has no deadline: it never expires
ShutdownWithoutDeadline ==
    /\ rpc = "draining"
    /\ FALSE
    /\ UNCHANGED vars

\* the context of Shutdown expires: Shutdown returns its error; Run returns
ShutdownTimeout ==
    /\ rpc = "draining"
    /\ clock = GraceBudget
    /\ result' = AfterShutdown("context deadline exceeded", last.sig)
    /\ last' = [last EXCEPT !.inflight = inflight]
    /\ rpc' = "returned"
    /\ returns' = [returns EXCEPT ![runs] = @ + 1]
    /\ UNCHANGED <<inShutdown, listening, listens, inflight, runs, lpc, lerr,
                   serverErrors, shutdown, clock, closeErr, shutdownCalls>>
    /\ OtherUnchanged

RunNext ==
    \/ RunStart
    \/ \E k \in Runs : LnListen(k)
    \/ \E k \in Runs : LnAcceptError(k)
    \/ \E k \in Runs : LnServerClosed(k)
    \/ \E k \in Runs : LnSend(k)
    \/ \E sig \in Signals : Signal(sig)
    \/ RequestStart
    \/ RequestDone
    \/ SelectServerError
    \/ SelectShutdown
    \/ Tick
    \/ ShutdownDone
    \/ ShutdownTimeout

SpecRun == RunInit /\ [][RunNext]_vars

\* The Go scheduler runs every goroutine that can take a step, and timers
\* fire: the accept goroutine and the coordinator inside Shutdown are not
\* starved.  No fairness for signals, listener failures or requests, which
\* the environment decides.
RunFairness ==
    /\ \A k \in Runs : WF_vars(LnListen(k))
    /\ \A k \in Runs : WF_vars(LnServerClosed(k))
    /\ \A k \in Runs : WF_vars(LnSend(k))
    /\ WF_vars(Tick)
    /\ WF_vars(ShutdownDone)
    /\ WF_vars(ShutdownTimeout)

SpecRunFair == RunInit /\ [][RunNext]_vars /\ RunFairness


\* ------------------------------------------- claims, shutdown coordinator
\* C7: a Run that took a signal called Shutdown once, with a budget of 5 s.
\* When no request was in flight at its return, the budget had not elapsed
\* and the listener closed without error, Run returned nil; when a request
\* was still in flight, the 5 s had elapsed and Run returned the deadline
\* error annotated with the signal it had received.
C7_DrainOutcome ==
    (rpc = "returned" /\ last.path = "signal") =>
        /\ shutdownCalls = 1
        /\ last.sig \in Signals
        /\ (last.inflight = 0 /\ clock < 5 /\ closeErr = ErrNil) =>
              result = [kind |-> "nil", wraps |-> "none", sig |-> "none"]
        /\ last.inflight > 0 =>
              /\ clock = 5
              /\ result = [ kind |-> "could not stop server gracefully",
                            wraps |-> "context deadline exceeded",
                            sig |-> last.sig ]
        /\ result.wraps = "context deadline exceeded" => clock = 5
        /\ result.kind = "nil" => last.inflight = 0

\* a request was held open past the budget after SIGTERM
C7_Witness ==
    /\ rpc = "returned" /\ last.path = "signal"
    /\ last.inflight > 0 /\ clock = 5
    /\ result.kind = "could not stop server gracefully"
    /\ result.sig = "terminated"

\* the other case of C7: the signal found no request in flight
C7_WitnessIdle ==
    /\ rpc = "returned" /\ last.path = "signal"
    /\ last.inflight = 0 /\ clock = 0
    /\ result.kind = "nil"

\* C8: when Run leaves its select with a listener error pending and no
\* signal delivered, it returns "server error" wrapping the error
\* ListenAndServe returned, and has not called Shutdown; the listener path
\* never calls Shutdown.
C8_ListenerFatal ==
    /\ (rpc = "returned" /\ last.errPending /\ ~last.sigPending) =>
          /\ last.path = "listener"
          /\ lerr[runs] \in {"listen error", "accept error"}
          /\ result = [kind |-> "server error", wraps |-> lerr[runs], sig |-> "none"]
    /\ (rpc = "returned" /\ last.path = "listener") =>
          /\ shutdownCalls = 0
          /\ clock = 0
          /\ result.kind = "server error"

C8_Witness ==
    /\ rpc = "returned" /\ last.path = "listener"
    /\ last.errPending /\ ~last.sigPending
    /\ result = [kind |-> "server error", wraps |-> "accept error", sig |-> "none"]
    /\ shutdownCalls = 0

\* a listener of the Server has accepted and has stopped
ListenerStopped == listens > 0 /\ listening = 0

\* C9 as stated: Draining never goes back to Running, once the listener has
\* stopped no listener of the Server accepts again (a further call of Run
\* included), and no call of Run returns twice.
C9_Original ==
    /\ [][ /\ rpc = "draining" => rpc' # "select"
           /\ ListenerStopped => listening' = 0 ]_vars
    /\ [](\A k \in Runs : returns[k] <= 1)

\* C9, amended: within one call of Run the state only moves forward (select,
\* then draining, then returned; or select, then returned), the accept
\* goroutine of a call starts a listener at most once, every call returns
\* exactly once, and once Shutdown has been called on the Server no listener
\* accepts again, a further call of Run included.  (A further call of Run
\* after a return on a listener error does start a new listener.)
C9_ForwardOnly ==
    /\ [][ /\ runs' = runs =>
                /\ rpc = "draining" => rpc' \in {"draining", "returned"}
                /\ rpc = "returned" => rpc' = "returned"
           /\ \A k \in Runs :
                lpc[k] \in {"sending", "exited"} => lpc'[k] \in {"sending", "exited"}
           /\ inShutdown => (inShutdown' /\ listening' = 0) ]_vars
    /\ [](\A k \in Runs :
            returns[k] = (IF k < runs \/ (k = runs /\ rpc = "returned") THEN 1 ELSE 0))

\* a second call of Run after a drain: the server stays shut down
C9_Witness ==
    /\ runs = 2 /\ rpc = "returned" /\ inShutdown
    /\ returns[1] = 1 /\ returns[2] = 1
    /\ lerr[2] = "ErrServerClosed"
    /\ listens = 1 /\ listening = 0

\* the errors ListenAndServe returns other than ErrServerClosed
ListenerFatal == {"listen error", "accept error"}

\* C11: Run returns nil only when no listener-fatal error occurred during
\* the call and the drain completed successfully: a listener-fatal error is
\* reported by Run also when the coordinator took the signal path.
C11_NeverSwallowed ==
    (rpc = "returned" /\ result.kind = "nil") =>
        /\ lerr[runs] \notin ListenerFatal
        /\ last.path = "signal"
        /\ closeErr = ErrNil
        /\ last.inflight = 0

\* C14: a listener error that was in the channel when the signal was
\* delivered makes Run take the listener path.
C14_ListenerFirst ==
    (last.path # "none" /\ last.errFirst) => last.path = "listener"

\* --------------------------------------------- claims, factories (second)
\* the caller options that install an InstrumentedTransport on the client
InstallingOps == ProviderOps \cup {"InstallInstrumentedMock"}

\* C12 as stated: every object a factory returns successfully carries the
\* decorator, whatever options were passed: the Client has an
\* InstrumentedTransport as its Transport, the Server has the instrumented
\* handler around the caller's handler, or around the default mux when the
\* handler was nil.
C12_Original ==
    /\ (Succeeded /\ fkind = "NewClient") => IsInstrumented(heap, client.Transport)
    /\ (Succeeded /\ fkind = "NewServer") =>
          server.Handler = [ instrumented |-> TRUE,
                             base |-> IF handlerArg = "nil" THEN "DefaultServeMux"
                                                            ELSE handlerArg ]

\* C12, amended: every Server NewServer returns has the instrumented handler
\* installed around the caller's handler, or around the default mux when the
\* handler was nil, and the connection-state hook set, whether or not
\* provider options were passed.  The Client NewClient returns has an
\* InstrumentedTransport as its Transport exactly when one of the options
\* installed it (a tracer/meter provider option or an option of the caller);
\* without such an option its Transport is the plain transport.
C12_Finalized ==
    /\ (Succeeded /\ fkind = "NewServer") =>
          /\ server.Handler = [ instrumented |-> TRUE,
                                base |-> IF handlerArg = "nil" THEN "DefaultServeMux"
                                                               ELSE handlerArg ]
          /\ server.ConnState
          /\ server.tracer # Nil /\ server.meter # Nil
    /\ (Succeeded /\ fkind = "NewClient") =>
          /\ IsInstrumented(heap, client.Transport)
                <=> \E i \in 1..Len(opts) : opts[i].op \in InstallingOps
          /\ ~IsInstrumented(heap, client.Transport) => IsTransport(heap, client.Transport)

\* NewServer(nil) without provider options returned a Server
C12_Witness ==
    /\ Succeeded /\ fkind = "NewServer" /\ handlerArg = "nil"
    /\ \A i \in 1..Len(opts) : opts[i].op \notin {"WithServerTracerProvider",
                                                  "WithServerMeterProvider"}
    /\ server.Handler.instrumented /\ server.Handler.base = "DefaultServeMux"

\* NewClient without provider options returned a Client on the plain transport
C12_WitnessClient ==
    /\ Succeeded /\ fkind = "NewClient" /\ opts = <<>>
    /\ IsTransport(heap, client.Transport)

\* --------------------------------------------- claims, decorators (second)
\* C13: the recorder holds the status code of the handler's first
\* WriteHeader call, later calls do not change it, and it holds 200 while the
\* handler has made no WriteHeader call.
C13_FirstCaptured ==
    \A r \in Requests :
        (side = "server" /\ reqs[r].pc # "idle") =>
            reqs[r].rr.statusCode =
                (IF reqs[r].calls = << >> THEN StatusOK ELSE reqs[r].calls[1])

\* C15: every call of ServeHTTP starts exactly one span, of kind server and
\* named "HTTP <method>"; the span is open while the handler runs and has
\* ended exactly once when the call is left, by return or by panic; on a
\* return the span that ended carries the status the recorder captured.
C15_OneSpan ==
    \A r \in Requests :
        side = "server" =>
            /\ reqs[r].pc = "idle" => reqs[r].span.started = 0
            /\ reqs[r].pc # "idle" =>
                  /\ reqs[r].span.started = 1
                  /\ reqs[r].span.name = <<"HTTP", Method(r)>>
                  /\ reqs[r].span.kind = "server"
            /\ reqs[r].pc = "serving" => reqs[r].span.ended = 0
            /\ Finished(r) => reqs[r].span.ended = 1
            /\ reqs[r].pc = "done" => reqs[r].span.status = reqs[r].rr.statusCode

\* a POST handler wrote 201 and returned while another call panicked
C15_Witness ==
    /\ side = "server"
    /\ \E r \in Requests :
          /\ reqs[r].pc = "done" /\ reqs[r].span.name = <<"HTTP", "POST">>
          /\ reqs[r].span.status = 201 /\ reqs[r].span.ended = 1
    /\ \E r \in Requests :
          reqs[r].pc = "panicked" /\ reqs[r].span.ended = 1

\* call r has passed the increment and has not reached the decrement
InFlight(r) == reqs[r].pc \in {"base", "serving"}

\* C16: for every attribute set the active-request counter is non-negative
\* and equals the number of calls that have passed the increment and have not
\* reached the decrement; the decrement of a call is registered with the
\* attribute set of its increment, and no call that was not counted in has a
\* decrement registered.
C16_ActiveRequests ==
    /\ \A m \in Methods :
          /\ active[m] >= 0
          /\ active[m] = IF counterSet
                         THEN Cardinality({r \in Requests : InFlight(r) /\ Method(r) = m})
                         ELSE 0
    /\ \A r \in Requests :
          /\ (counterSet /\ reqs[r].pc # "idle") => reqs[r].deferAttrs = Method(r)
          /\ (~counterSet \/ reqs[r].pc = "idle") => reqs[r].deferAttrs = "none"

\* a POST is in flight after another call was left by a panic
C16_Witness ==
    /\ counterSet
    /\ active["POST"] = 1 /\ active["GET"] = 0
    /\ \E r \in Requests : reqs[r].pc = "panicked" /\ reqs[r].deferAttrs = "GET"
    /\ \E r \in Requests : InFlight(r) /\ Method(r) = "POST"

\* --------------------------------------------- claims, factories (third)
\* the client's transport is a plain transport, or a decorator whose Base is
\* a plain transport
PlainBehind(c, h) ==
    \/ IsTransport(h, c.Transport)
    \/ IsInstrumented(h, c.Transport) /\ IsTransport(h, h[c.Transport].Base)

\* the plain transport of such a client
Underlying(c, h) ==
    IF IsTransport(h, c.Transport) THEN c.Transport ELSE h[c.Transport].Base

\* C18: a transport-level option returns the configuration error exactly
\* when the client's transport is neither a plain transport nor a decorator
\* whose Base is a plain transport; otherwise it sets its field on that
\* plain transport and leaves the client's Transport as it was, so it takes
\* effect after a provider option has installed the decorator.
C18_TransportOption ==
    [][ (fkind = "NewClient" /\ fpc = "options" /\ trail' # trail
            /\ OptionList[idx].op \in TransportFieldOps) =>
          LET o == OptionList[idx]
              e == trail'[Len(trail')].err
          IN  /\ (e # ErrNil) <=> ~PlainBehind(client, heap)
              /\ e \in {ErrNil, "transport is not *http.Transport"}
              /\ PlainBehind(client, heap) =>
                    /\ client' = client
                    /\ Len(heap') = Len(heap)
                    /\ LET u == Underlying(client, heap)
                       IN  /\ heap'[u] = SetTransportField(o, heap[u])
                           /\ \A q \in 1..Len(heap) : q # u => heap'[q] = heap[q]
              /\ ~PlainBehind(client, heap) => (client' = client /\ heap' = heap)
      ]_vars

\* a TLS handshake timeout given after a tracer provider reached the plain
\* transport behind the decorator
C18_Witness ==
    /\ Succeeded /\ fkind = "NewClient"
    /\ opts = << Opt("WithClientTracerProvider", 1), Opt("WithTLSHandshakeTimeout", 50) >>
    /\ IsInstrumented(heap, client.Transport)
    /\ heap[heap[client.Transport].Base].TLSHandshakeTimeout = 50

\* a transport-level option failed on a decorator over a mock transport
C18_WitnessError ==
    /\ Returned /\ fkind = "NewClient"
    /\ ret.err = "transport is not *http.Transport"
    /\ IsInstrumented(heap, client.Transport)

\* ------------------------------------ claims, shutdown coordinator (second)
\* C17: once Run has taken the signal path it returns, and it does so with
\* no more than the grace period elapsed, also when a request in flight never
\* completes; when Run takes the listener path it returns in that same step,
\* without waiting.
C17_RunTerminates ==
    /\ (rpc = "draining") ~> (rpc = "returned")
    /\ [](rpc \in {"draining", "returned"} => clock <= GraceBudget)
    /\ [][ (rpc = "select" /\ rpc' # "select" /\ last'.path = "listener") =>
              (rpc' = "returned" /\ clock' = 0 /\ shutdownCalls' = 0) ]_vars

\* Run returned at the end of the grace period with a request never completed
C17_Witness ==
    /\ rpc = "returned" /\ last.path = "signal" /\ last.sig = "interrupt"
    /\ inflight > 0 /\ clock = GraceBudget
    /\ result.wraps = "context deadline exceeded"

\* C19 as stated: the send of the accept goroutine on the error channel can
\* always complete, and the goroutine has terminated by the time a successful
\* drain makes Run return.
C19_Original ==
    /\ \A k \in Runs : lpc[k] = "sending" => ENABLED LnSend(k)
    /\ (rpc = "returned" /\ last.path = "signal" /\ result.kind = "nil") =>
          lpc[runs] = "exited"

\* C19, amended: the send of the accept goroutine on the error channel can
\* always complete at once, also when the coordinator took the signal path
\* and never reads the channel, and the goroutine then terminates; once
\* Shutdown has been called the goroutine terminates (ListenAndServe returns
\* ErrServerClosed).  Run does not wait for it: the goroutine may still be
\* running when a successful drain makes Run return.
C19_GoroutineEnds ==
    /\ [](\A k \in Runs : lpc[k] = "sending" => ENABLED LnSend(k))
    /\ \A k \in Runs : (lpc[k] = "sending") ~> (lpc[k] = "exited")
    /\ \A k \in Runs :
          (inShutdown /\ lpc[k] \in {"start", "serving"}) ~> (lpc[k] = "exited")

\* Run returned nil after a drain while its accept goroutine had yet to see
\* the closed listener
C19_Witness ==
    /\ rpc = "returned" /\ last.path = "signal" /\ result.kind = "nil"
    /\ lpc[runs] = "serving"

\* the goroutine sent its error after the coordinator had taken the signal
\* path, and terminated
C19_WitnessSend ==
    /\ rpc = "returned" /\ last.path = "signal" /\ ~last.errPending
    /\ lpc[runs] = "exited" /\ serverErrors[runs] # "empty"

\* ---------------------------------------------------- connection-state hook
ConnInit ==
    /\ ConnIdle
    /\ WriterIdle
    /\ RunIdle
    /\ FactoryIdle
    /\ TrafficIdle

\* The states net/http reports for one connection, in the order its
\* ConnState contract allows: New first; Active and Idle alternate; Closed
\* and Hijacked are terminal, and Hijacked is not followed by Closed.
NextConnStates(cs) ==
    CASE cs = "none"        -> {"StateNew"}
      [] cs = "StateNew"    -> {"StateActive", "StateClosed"}
      [] cs = "StateActive" -> {"StateIdle", "StateClosed", "StateHijacked"}
      [] cs = "StateIdle"   -> {"StateActive", "StateClosed"}
      [] OTHER              -> {}

\* a hijacked connection is not counted out
ConnStateKeepsHijacked(count, cs) ==
    CASE cs = "StateNew"    -> count + 1
      [] cs = "StateClosed" -> count - 1
      [] OTHER              -> count

\* the switch of `s.server.ConnState = func(c net.Conn, cs http.ConnState)`
ConnStateHook(count, cs) ==
    CASE cs = "StateNew"                        -> count + 1
      [] cs \in {"StateClosed", "StateHijacked"} -> count - 1
      [] OTHER                                  -> count

\* net/http calls the hook of the Server for a state change of connection c
ServerConnState(c) ==
    /\ \E cs \in NextConnStates(conns[c]) :
          /\ conns' = [conns EXCEPT ![c] = cs]
          /\ openConns' = ConnStateHook(openConns, cs)
    /\ UNCHANGED factoryVars
    /\ UNCHANGED trafficVars
    /\ UNCHANGED runVars
    /\ UNCHANGED writerVars

ConnNext == \E c \in Conns : ServerConnState(c)

SpecConn == ConnInit /\ [][ConnNext]_vars

\* ------------------------------------------------ claims, connection hook
\* connection c has entered New and has not entered Closed or Hijacked
OpenConn(c) == conns[c] \in {"StateNew", "StateActive", "StateIdle"}

\* C20: the open-connections counter is never negative and equals the number
\* of connections that have entered New and have not entered Closed or
\* Hijacked; a step into New adds one, the step into Closed or Hijacked
\* takes one away, and a step into Active or Idle leaves the counter as it is.
C20_OpenConnections ==
    /\ [](openConns >= 0 /\ openConns = Cardinality({c \in Conns : OpenConn(c)}))
    /\ [][ \A c \in Conns :
             conns'[c] # conns[c] =>
                openConns' = openConns +
                    (CASE conns'[c] = "StateNew" -> 1
                       [] conns'[c] \in {"StateClosed", "StateHijacked"} -> -1
                       [] OTHER -> 0) ]_vars

\* one connection hijacked, one closed, one idle: the counter is at one
C20_Witness ==
    /\ \E c \in Conns : conns[c] = "StateHijacked"
    /\ \E c \in Conns : conns[c] = "StateClosed"
    /\ \E c \in Conns : conns[c] = "StateIdle"
    /\ openConns = 1

\* ------------------------------------------------------- responseRecorder
\* the chunks a handler writes and the values it gives the one header it sets
BodyChunks == {"a", "b"}
HeaderValues == {"text", "json"}

\* ResponseWriter.WriteHeader of net/http: the first call fixes the status
\* line and the headers sent; a later call is superfluous and changes nothing
RwWriteHeader(w, code) ==
    IF w.wroteHeader
    THEN w
    ELSE [w EXCEPT !.wroteHeader = TRUE, !.status = code, !.sent = w.header]

\* ResponseWriter.Write of net/http: an implicit WriteHeader(200) when no
\* header was written, then the chunk
RwWrite(w, b) ==
    LET w1 == RwWriteHeader(w, StatusOK)
    IN  [w1 EXCEPT !.body = Append(@, b)]

\* ResponseWriter.Header().Set(...)
RwSetHeader(w, v) == [w EXCEPT !.header = v]

\* Flusher.Flush of net/http's ResponseWriter: sends the header if none was
\* written, then what is buffered
RwFlush(w) == RwWriteHeader(w, StatusOK)

\* the methods of the ResponseWriter net/http hands to a handler: those of
\* the interface, and Flush of the optional http.Flusher
ResponseMethods == {"Header", "Write", "WriteHeader", "Flush"}

\* the method set of *responseRecorder: the methods of the embedded
\* ResponseWriter interface, with WriteHeader replaced by its own
RecorderMethods == {"Header", "Write", "WriteHeader"}

\* what a handler does when the writer it was given is not an http.Flusher:
\* go on without flushing, or answer with http.Error and return
FlushFallbacks == {"skip", "error"}

\* the handler returned: net/http sends the header if none was written
RwFinish(w) == RwWriteHeader(w, StatusOK)

\* the codes the recorder passed on with its last WriteHeader, applied to
\* the writer it embeds
Forward(before, after, w) ==
    IF Len(after.forwarded) > Len(before.forwarded)
    THEN RwWriteHeader(w, after.forwarded[Len(after.forwarded)])
    ELSE w

\* responseRecorder has no Write of its own: the method of the embedded
\* ResponseWriter is promoted
RecorderWrite(w, b) == RwWrite(w, b)

\* responseRecorder has no Header of its own: promoted as well
RecorderSetHeader(w, v) == RwSetHeader(w, v)

\* ServeHTTP has wrapped the writer of a request and calls the handler:
\* `rr := &responseRecorder{ResponseWriter: w, statusCode: http.StatusOK}`
RecorderInit ==
    /\ wpc = "serving"
    /\ recorder = [statusCode |-> StatusOK, forwarded |-> << >>]
    /\ under = NewResponseWriter
    /\ direct = NewResponseWriter
    /\ hlog = << >>
    /\ ConnIdle
    /\ RunIdle
    /\ FactoryIdle
    /\ TrafficIdle

HandlerUnchanged ==
    /\ UNCHANGED factoryVars /\ UNCHANGED trafficVars
    /\ UNCHANGED runVars /\ UNCHANGED connVars

\* the handler calls WriteHeader(code) on the recorder
HandlerWriteHeader ==
    /\ wpc = "serving"
    /\ Len(hlog) < MaxCalls
    /\ \E code \in StatusCodes :
          /\ recorder' = WriteHeader(recorder, code)
          /\ under' = Forward(recorder, recorder', under)
          /\ direct' = RwWriteHeader(direct, code)
          /\ hlog' = Append(hlog, [op |-> "WriteHeader", arg |-> code])
    /\ UNCHANGED wpc
    /\ HandlerUnchanged

\* the handler calls Write(chunk) on the recorder
HandlerWrite ==
    /\ wpc = "serving"
    /\ Len(hlog) < MaxCalls
    /\ \E b \in BodyChunks :
          /\ under' = RecorderWrite(under, b)
          /\ direct' = RwWrite(direct, b)
          /\ hlog' = Append(hlog, [op |-> "Write", arg |-> b])
    /\ UNCHANGED <<wpc, recorder>>
    /\ HandlerUnchanged

\* the handler calls Header().Set(...) on the recorder
HandlerSetHeader ==
    /\ wpc = "serving"
    /\ Len(hlog) < MaxCalls
    /\ \E v \in HeaderValues :
          /\ under' = RecorderSetHeader(under, v)
          /\ direct' = RwSetHeader(direct, v)
          /\ hlog' = Append(hlog, [op |-> "Header", arg |-> v])
    /\ UNCHANGED <<wpc, recorder>>
    /\ HandlerUnchanged

\* the handler asks for `w.(http.Flusher)` and flushes when it gets one;
\* without one it goes on, or it answers http.Error(w, ..., 500) and returns
HandlerFlush ==
    /\ wpc = "serving"
    /\ Len(hlog) < MaxCalls
    /\ direct' = (IF "Flush" \in ResponseMethods THEN RwFlush(direct) ELSE direct)
    /\ \E fallback \in FlushFallbacks :
          IF "Flush" \in RecorderMethods
          THEN /\ under' = RwFlush(under)
               /\ hlog' = Append(hlog, [op |-> "Flush", arg |-> "ok"])
               /\ UNCHANGED <<wpc, recorder>>
          ELSE IF fallback = "skip"
          THEN /\ hlog' = Append(hlog, [op |-> "Flush", arg |-> "skip"])
               /\ UNCHANGED <<wpc, recorder, under>>
          ELSE /\ recorder' = WriteHeader(recorder, 500)
               /\ under' = RwFinish(RecorderWrite(Forward(recorder, recorder', under),
                                                  "error"))
               /\ hlog' = hlog \o << [op |-> "Flush", arg |-> "error"],
                                     [op |-> "WriteHeader", arg |-> 500],
                                     [op |-> "Write", arg |-> "error"] >>
               /\ wpc' = "done"
    /\ HandlerUnchanged

\* the handler returns and net/http finishes the response
HandlerReturn ==
    /\ wpc = "serving"
    /\ wpc' = "done"
    /\ under' = RwFinish(under)
    /\ direct' = RwFinish(direct)
    /\ UNCHANGED <<recorder, hlog>>
    /\ HandlerUnchanged

RecorderNext ==
    \/ HandlerWriteHeader
    \/ HandlerWrite
    \/ HandlerSetHeader
    \/ HandlerFlush
    \/ HandlerReturn

SpecRecorder == RecorderInit /\ [][RecorderNext]_vars

\* ------------------------------------------------------ claims, recorder
\* the codes of the WriteHeader calls in a log of handler calls, in order
RECURSIVE CodesOf(_)
CodesOf(log) ==
    IF log = << >> THEN << >>
    ELSE IF log[1].op = "WriteHeader"
         THEN <<log[1].arg>> \o CodesOf(Tail(log))
         ELSE CodesOf(Tail(log))

\* the chunks of the Write calls in a log of handler calls, in order
RECURSIVE ChunksOf(_)
ChunksOf(log) ==
    IF log = << >> THEN << >>
    ELSE IF log[1].op = "Write"
         THEN <<log[1].arg>> \o ChunksOf(Tail(log))
         ELSE ChunksOf(Tail(log))

\* the handler asked for an http.Flusher
AskedFlusher == \E i \in 1..Len(hlog) : hlog[i].op = "Flush"

\* C21: every WriteHeader(code) of the handler is passed on to the embedded
\* ResponseWriter with the same code and in the same order, every body chunk
\* reaches it in order, and when the handler has returned the response
\* (status line, headers sent, body) is the one the client would have got
\* had the handler been given the embedded writer directly.
C21_Transparent ==
    wpc \in {"serving", "done"} =>
        /\ recorder.forwarded = CodesOf(hlog)
        /\ under.body = ChunksOf(hlog)
        /\ wpc = "done" => under = direct

\* C21, for a handler that calls WriteHeader, Write and Header only: the
\* embedded writer is at every moment in the state it would be in had the
\* handler been given it directly.
C21_InterfaceCalls ==
    (wpc \in {"serving", "done"} /\ ~AskedFlusher) =>
        /\ recorder.forwarded = CodesOf(hlog)
        /\ under.body = ChunksOf(hlog)
        /\ under = direct

\* the handler set a header, wrote 404 and a chunk, and returned
C21_Witness ==
    /\ wpc = "done"
    /\ Len(hlog) = 3
    /\ hlog[1].op = "Header" /\ hlog[2].op = "WriteHeader" /\ hlog[3].op = "Write"
    /\ under.status = 404 /\ under.sent = hlog[1].arg /\ under.body = <<hlog[3].arg>>
    /\ recorder.forwarded = <<404>>

\* a handler that only wrote a body: the client gets 200 and the chunk
C21_WitnessBodyOnly ==
    /\ wpc = "done"
    /\ Len(hlog) > 0 /\ \A i \in 1..Len(hlog) : hlog[i].op = "Write"
    /\ under.status = StatusOK /\ recorder.statusCode = StatusOK

====
